---- MODULE Spec2Model ----
(***************************************************************************)
(* grepcidr.py: filter lines by whether a whitespace-delimited field is an *)
(* IP address inside one of the given CIDR networks.                       *)
(*                                                                         *)
(* A Python str is a sequence of one-character strings, so that strip,     *)
(* split, the address parsers and print are computed character by          *)
(* character.  An address is a tuple of groups (4 octets of 8 bits, or 8   *)
(* hextets of 16 bits): the 32 and 128 bit widths are kept, and no value   *)
(* leaves the range of the model checker's integers.                       *)
(***************************************************************************)
EXTENDS Integers, Sequences, FiniteSets, TLC

(***************************************************************************)
(* str methods                                                             *)
(***************************************************************************)

\* The characters str.strip() and str.split() treat as whitespace (those of
\* str.isspace that the inputs below use).
Whitespace == {" ", "\t", "\n", "\r", "\f"}

DecDigits == <<"0", "1", "2", "3", "4", "5", "6", "7", "8", "9">>

HexLower == <<"0", "1", "2", "3", "4", "5", "6", "7", "8", "9",
              "a", "b", "c", "d", "e", "f">>

HexUpper == <<"0", "1", "2", "3", "4", "5", "6", "7", "8", "9",
              "A", "B", "C", "D", "E", "F">>

Range(s) == {s[i] : i \in 1..Len(s)}

\* s.strip()
strip(s) ==
  LET keep == {i \in 1..Len(s) : s[i] \notin Whitespace}
  IN IF keep = {} THEN <<>>
     ELSE SubSeq(s, CHOOSE i \in keep : \A j \in keep : i <= j,
                    CHOOSE i \in keep : \A j \in keep : i >= j)

\* s.startswith(p)
startswith(s, p) == Len(s) >= Len(p) /\ SubSeq(s, 1, Len(p)) = p

\* s.split(sep) for a one-character sep: one more part than separators.
RECURSIVE split_on(_, _)
split_on(s, sep) ==
  LET hits == {i \in 1..Len(s) : s[i] = sep}
  IN IF hits = {} THEN <<s>>
     ELSE LET i == CHOOSE i \in hits : \A j \in hits : i <= j
          IN <<SubSeq(s, 1, i - 1)>> \o split_on(SubSeq(s, i + 1, Len(s)), sep)

\* s.split(): the maximal runs of non-whitespace characters, in order.
RECURSIVE split(_)
split(s) ==
  LET text == {i \in 1..Len(s) : s[i] \notin Whitespace}
  IN IF text = {} THEN <<>>
     ELSE LET b == CHOOSE i \in text : \A j \in text : i <= j
              gaps == {i \in b..Len(s) : s[i] \in Whitespace}
              e == IF gaps = {} THEN Len(s) + 1
                   ELSE CHOOSE i \in gaps : \A j \in gaps : i <= j
          IN <<SubSeq(s, b, e - 1)>> \o split(SubSeq(s, e, Len(s)))

\* s.isascii() and s.isdigit(), for a non-empty s
isdigit(s) == s # <<>> /\ Range(s) \subseteq Range(DecDigits)

DecVal(c) == (CHOOSE i \in 1..10 : DecDigits[i] = c) - 1

HexVal(c) ==
  IF c \in Range(HexLower) THEN (CHOOSE i \in 1..16 : HexLower[i] = c) - 1
  ELSE (CHOOSE i \in 1..16 : HexUpper[i] = c) - 1

\* int(s, 10) of a digit string
RECURSIVE int10(_)
int10(s) ==
  IF s = <<>> THEN 0
  ELSE 10 * int10(SubSeq(s, 1, Len(s) - 1)) + DecVal(s[Len(s)])

\* int(s, 16) of a hex digit string
RECURSIVE int16(_)
int16(s) ==
  IF s = <<>> THEN 0
  ELSE 16 * int16(SubSeq(s, 1, Len(s) - 1)) + HexVal(s[Len(s)])

\* str(n) of a non-negative int
RECURSIVE str(_)
str(n) ==
  IF n < 10 THEN <<DecDigits[n + 1]>>
  ELSE str(n \div 10) \o <<DecDigits[(n % 10) + 1]>>

(***************************************************************************)
(* ipaddress: parsing                                                      *)
(***************************************************************************)

\* The value a failed parse (ValueError) yields.
ParseFailure == [ok |-> FALSE, version |-> 0, ip |-> <<>>, prefixlen |-> 0]

Parsed(v, groups, plen) ==
  [ok |-> TRUE, version |-> v, ip |-> groups, prefixlen |-> plen]

\* IPv4Address._parse_octet: 1 to 3 ASCII digits, no leading zero, at most 255.
octet_ok(o) ==
  /\ isdigit(o)
  /\ Len(o) <= 3
  /\ (o = <<"0">> \/ o[1] # "0")
  /\ int10(o) <= 255

\* IPv4Address._ip_int_from_string, given the literal's parts between dots.
v4_from(octets) ==
  IF Len(octets) = 4 /\ \A i \in 1..4 : octet_ok(octets[i])
  THEN Parsed(4, [i \in 1..4 |-> int10(octets[i])], 32)
  ELSE ParseFailure

\* IPv4Address(s): four octets separated by dots.
IPv4Address(s) ==
  IF s = <<>> \/ "/" \in Range(s) THEN ParseFailure
  ELSE v4_from(split_on(s, "."))

\* IPv6Address._parse_hextet: 1 to 4 hex digits.
hextet_ok(h) ==
  /\ h # <<>>
  /\ Range(h) \subseteq (Range(HexLower) \cup Range(HexUpper))
  /\ Len(h) <= 4

\* An IPv4-style suffix v4 of an IPv6 literal, rewritten as two hextets in
\* place of the last part; <<>> when the suffix is no IPv4 address.
v4_suffix(parts, v4) ==
  IF v4.ok
  THEN SubSeq(parts, 1, Len(parts) - 1)
         \o << <<"v4", v4.ip[1] * 256 + v4.ip[2]>>,
               <<"v4", v4.ip[3] * 256 + v4.ip[4]>> >>
  ELSE <<>>

\* The parts of an IPv6 literal between colons, an IPv4-style suffix
\* rewritten.
v6_parts(parts) ==
  IF "." \in Range(parts[Len(parts)])
  THEN v4_suffix(parts, IPv4Address(parts[Len(parts)]))
  ELSE parts

is_v4_part(p) == Len(p) = 2 /\ p[1] = "v4"

part_ok(p) == is_v4_part(p) \/ hextet_ok(p)

part_val(p) == IF is_v4_part(p) THEN p[2] ELSE int16(p)

\* The address with hi parts before the "::" and lo parts after it.
v6_fill(parts, hi, lo) ==
  IF \/ 8 - (hi + lo) < 1
     \/ \E i \in 1..hi : ~part_ok(parts[i])
     \/ \E i \in (Len(parts) - lo + 1)..Len(parts) : ~part_ok(parts[i])
  THEN ParseFailure
  ELSE Parsed(6,
         [i \in 1..8 |->
            IF i <= hi THEN part_val(parts[i])
            ELSE IF i <= 8 - lo THEN 0
            ELSE part_val(parts[Len(parts) - 8 + i])],
         128)

\* The "::" is at part k: it may cover an empty first or last part, and
\* nothing else may be empty there.
v6_compressed(parts, k) ==
  IF \/ (parts[1] = <<>> /\ k - 2 # 0)
     \/ (parts[Len(parts)] = <<>> /\ Len(parts) - k - 1 # 0)
  THEN ParseFailure
  ELSE v6_fill(parts,
               IF parts[1] = <<>> THEN k - 2 ELSE k - 1,
               IF parts[Len(parts)] = <<>> THEN Len(parts) - k - 1
               ELSE Len(parts) - k)

\* IPv6Address._ip_int_from_string, given the parts and the empty parts
\* that are neither first nor last.
v6_from(parts, skips) ==
  IF Len(parts) = 0 \/ Len(parts) > 9 \/ Cardinality(skips) > 1
  THEN ParseFailure
  ELSE IF skips # {} THEN v6_compressed(parts, CHOOSE i \in skips : TRUE)
  ELSE IF Len(parts) = 8 /\ \A i \in 1..8 : part_ok(parts[i])
       THEN Parsed(6, [i \in 1..8 |-> part_val(parts[i])], 128)
       ELSE ParseFailure

inner_empty(parts) == {i \in 2..(Len(parts) - 1) : parts[i] = <<>>}

v6_split(parts) ==
  IF Len(parts) < 3 THEN ParseFailure
  ELSE v6_from(v6_parts(parts), inner_empty(v6_parts(parts)))

\* IPv6Address(s): up to eight hextets separated by colons.
IPv6Address(s) ==
  IF s = <<>> \/ "/" \in Range(s) THEN ParseFailure
  ELSE v6_split(split_on(s, ":"))

\* The first parse if it succeeded, the second otherwise.
first_ok(a, b) == IF a.ok THEN a ELSE b

\* ipaddress.ip_address(s): IPv4 first, then IPv6.
ip_address(s) == first_ok(IPv4Address(s), IPv6Address(s))

\* int() accepts leading zeros: the digits from the first that is not 0.
significant(p) ==
  LET nz == {i \in 1..Len(p) : p[i] # "0"}
  IN IF nz = {} THEN <<>>
     ELSE SubSeq(p, CHOOSE i \in nz : \A j \in nz : i <= j, Len(p))

\* _prefix_from_prefix_string: ASCII digits, 0 <= value <= max_prefixlen.
\* (A netmask or hostmask in dotted-quad form, which IPv4 also accepts, is not
\* modelled: no expression below uses one.)
prefix_ok(p, max) ==
  isdigit(p) /\ Len(significant(p)) <= 3 /\ int10(significant(p)) <= max

GroupBits(v) == IF v = 4 THEN 8 ELSE 16

Pow2(n) == 2 ^ n

\* The bits of group number i (from 1) that a prefix of plen bits covers.
Covered(v, plen, i) ==
  IF plen - (i - 1) * GroupBits(v) < 0 THEN 0
  ELSE IF plen - (i - 1) * GroupBits(v) > GroupBits(v) THEN GroupBits(v)
  ELSE plen - (i - 1) * GroupBits(v)

\* One group with its bits below the covered ones cleared.
mask_group(v, g, covered) ==
  (g \div Pow2(GroupBits(v) - covered)) * Pow2(GroupBits(v) - covered)

\* No mask applied: the host bits stay.
mask_to_none(v, groups, plen) == groups

\* address & netmask, group by group: the host bits are cleared.
mask_to(v, groups, plen) ==
  [i \in DOMAIN groups |-> mask_group(v, groups[i], Covered(v, plen, i))]

\* The network of address addr and prefix length plen, strict=False.
masked(addr, plen) == Parsed(addr.version, mask_to(addr.version, addr.ip, plen), plen)

\* The network of a literal split at "/", its address part parsed as addr.
net_from(halves, addr, max) ==
  IF Len(halves) > 2 \/ ~addr.ok THEN ParseFailure
  ELSE IF Len(halves) = 1 THEN Parsed(addr.version, addr.ip, max)
  ELSE IF prefix_ok(halves[2], max)
       THEN masked(addr, int10(significant(halves[2])))
       ELSE ParseFailure

\* IPv4Network(s, strict=False)
IPv4Network(s) ==
  net_from(split_on(s, "/"), IPv4Address(split_on(s, "/")[1]), 32)

\* IPv6Network(s, strict=False)
IPv6Network(s) ==
  net_from(split_on(s, "/"), IPv6Address(split_on(s, "/")[1]), 128)

\* ipaddress.ip_network(s, strict=False): IPv4 first, then IPv6.
ip_network(s) == first_ok(IPv4Network(s), IPv6Network(s))

\* ip in net: (ip & net.netmask) == net.network_address
in_network(ip, net) == mask_to(net.version, ip.ip, net.prefixlen) = net.ip

(***************************************************************************)
(* The texts the bounded inputs are drawn from                             *)
(***************************************************************************)

\* "10.0.0.0/8": an IPv4 network
Net4 == <<"1", "0", ".", "0", ".", "0", ".", "0", "/", "8">>

\* "10.9.9.9/8": the same network, written with host bits set
Net4Host == <<"1", "0", ".", "9", ".", "9", ".", "9", "/", "8">>

\* "fe80::/10": an IPv6 network
Net6 == <<"f", "e", "8", "0", ":", ":", "/", "1", "0">>

\* "10.0.0.0/33": no network: the prefix is too long
BadNet == <<"1", "0", ".", "0", ".", "0", ".", "0", "/", "3", "3">>

\* "f": the name of a file that can be opened
FileF == <<"f">>

\* "g": the name of a file that cannot be opened
FileG == <<"g">>

\* "c": the name of a CIDR file
FileC == <<"c">>

\* "k": the name of a CIDR file holding only comments
FileK == <<"k">>

\* "": the empty string
Empty == <<>>

\* " \t\n": a whitespace-only line
LineBlank == <<" ", "\t", "\n">>

\* "10.1.2.3\n": one field
Line1 == <<"1", "0", ".", "1", ".", "2", ".", "3", "\n">>

\* " h \tfe80::1 \n": two fields between runs of whitespace
Line2 == <<" ", "h", " ", "\t", "f", "e", "8", "0", ":", ":", "1", " ", "\n">>

\* "11.0.0.1 10.1.2.3": two fields, no line terminator: a last line
Line3 == <<"1", "1", ".", "0", ".", "0", ".", "1", " ", "1", "0", ".", "1", ".", "2", ".", "3">>

\* "x 10.0.0.9\n": first line of file f
LineF1 == <<"x", " ", "1", "0", ".", "0", ".", "0", ".", "9", "\n">>

\* "192.168.0.1 y\n": second line of file f
LineF2 == <<"1", "9", "2", ".", "1", "6", "8", ".", "0", ".", "1", " ", "y", "\n">>

\* " # nets\n": a comment after leading spaces
LineC1 == <<" ", "#", " ", "n", "e", "t", "s", "\n">>

\* "\n": an empty line
LineC2 == <<"\n">>

\* "  fe80::1/10 \n": an expression between spaces
LineC3 == <<" ", " ", "f", "e", "8", "0", ":", ":", "1", "/", "1", "0", " ", "\n">>

\* "#\n": a comment
LineK1 == <<"#", "\n">>

\* "10.1.2.3": inside Net4
Addr4In == <<"1", "0", ".", "1", ".", "2", ".", "3">>

\* "11.0.0.1": outside Net4
Addr4Out == <<"1", "1", ".", "0", ".", "0", ".", "1">>

\* "fe80::1": inside Net6
Addr6In == <<"f", "e", "8", "0", ":", ":", "1">>

\* "::1": outside Net6
Addr6Out == <<":", ":", "1">>

\* "h": no address
NoAddr == <<"h">>

\* "10.128.0.0/9": the upper half of Net4
Net4Half == <<"1", "0", ".", "1", "2", "8", ".", "0", ".", "0", "/", "9">>

\* "0.0.0.0/0": every IPv4 address
Net4All == <<"0", ".", "0", ".", "0", ".", "0", "/", "0">>

\* "::/0": every IPv6 address
Net6All == <<":", ":", "/", "0">>

(***************************************************************************)
(* The environment: the files open() finds, and what reading them yields   *)
(***************************************************************************)

\* An optional str: None, or a one-element tuple holding the str.
None == <<>>

Some(x) == <<x>>

\* Python's truth value of an optional str: None and "" are both false.
truthy(opt) == opt # None /\ opt[1] # <<>>

\* open(name) succeeds for these names and raises OSError for every other.
Files == {FileF, FileC, FileK}

can_open(name) == name \in Files

\* The lines that iterating over the opened file yields.
readlines(name) ==
  IF name = FileF THEN <<LineF1, LineF2>>
  ELSE IF name = FileC THEN <<LineC1, LineC2, LineC3>>
  ELSE <<LineK1, LineC2>>

(***************************************************************************)
(* The program                                                             *)
(***************************************************************************)

VARIABLES
  args,          \* the argparse namespace parse_args returns
  stdin,         \* the lines standard input will yield
  pc,            \* where the program is
  cidr_strings,  \* load_cidrs: the expressions collected so far
  infile,        \* load_cidrs: the input file name, or None
  networks,      \* the parsed networks
  open,          \* the files the program holds open
  fh,            \* main: the stream being read: "none", "stdin" or "file"
  lines,         \* the lines iterating over fh yields
  pos,           \* how many of them the loop has consumed
  selected,      \* main: the running count of selected lines
  ip_s,          \* main: the field of the last line not skipped
  matched,       \* main: whether that line was selected
  stdout,        \* the writes to standard output, in order
  stderr,        \* the messages written to standard error
  exit_code      \* the process's exit status, -1 while it runs

vars == <<args, stdin, pc, cidr_strings, infile, networks, open, fh, lines,
          pos, selected, ip_s, matched, stdout, stderr, exit_code>>

\* load_cidrs: the expressions of the CIDR file's lines, blank lines and
\* comments dropped, the others stripped.
RECURSIVE cidr_file_exprs(_)
cidr_file_exprs(ls) ==
  IF ls = <<>> THEN <<>>
  ELSE LET line == strip(Head(ls))
       IN (IF line = <<>> \/ startswith(line, <<"#">>) THEN <<>> ELSE <<line>>)
            \o cidr_file_exprs(Tail(ls))

(***************************************************************************)
(* The parses of the texts a run can meet, each computed once: the actions *)
(* below look the result of split, ip_network and ip_address up here.  A   *)
(* text that is not listed has no entry, and applying the table to it is   *)
(* an error, not a default.                                                *)
(***************************************************************************)

\* Every line a stream or the file f can yield.
InputLines == {LineBlank, Line1, Line2, Line3, LineF1, LineF2}

\* Every text a field can hold.
FieldTexts ==
  UNION {Range(split(l)) : l \in InputLines}
    \cup {Addr4In, Addr4Out, Addr6In, Addr6Out, NoAddr}

\* Every text taken as an expression.
ExprTexts ==
  {Net4, Net4Host, Net4Half, Net4All, Net6, Net6All, BadNet, FileF, FileG, Empty}
    \cup UNION {Range(cidr_file_exprs(readlines(f))) : f \in Files}

line_split == [l \in InputLines |-> split(l)]

network_of == [t \in ExprTexts |-> ip_network(t)]

address_of == [t \in FieldTexts |-> ip_address(t)]

\* load_cidrs: does the last positional argument parse as a network?
last_is_cidr(positional) == network_of[positional[Len(positional)]].ok

\* The slice positional[:-1] forgotten: the file name stays an expression.
positional_cidrs_all(positional) == positional

\* load_cidrs: the positional arguments taken as expressions.
positional_cidrs(positional) ==
  IF positional = <<>> THEN <<>>
  ELSE IF last_is_cidr(positional) THEN positional
  ELSE SubSeq(positional, 1, Len(positional) - 1)

\* load_cidrs: the positional argument taken as the input file.
positional_infile(positional) ==
  IF positional = <<>> THEN None
  ELSE IF last_is_cidr(positional) THEN None
  ELSE Some(positional[Len(positional)])

least(S) == IF S = {} THEN 0 ELSE CHOOSE i \in S : \A j \in S : i <= j

\* load_cidrs: the first expression that is no network, 0 if all are.
first_invalid(cidrs) ==
  least({i \in 1..Len(cidrs) : ~network_of[cidrs[i]].ok})

\* ip_matches_any, after ip_address(ip_s) gave a.
any_network(a, nets) ==
  a.ok /\ \E i \in 1..Len(nets) :
            a.version = nets[i].version /\ in_network(a, nets[i])

ip_matches_any(ip, nets) == any_network(address_of[ip], nets)

\* main: the line is empty or whitespace only.
is_blank(line) == strip(line) = <<>>

\* Off by one: a line whose last field is the wanted one is skipped too.
field_missing_strict(parts, field_index) == field_index + 1 >= Len(parts)

\* main: the line has no field at field_index (from 0).
field_missing(parts, field_index) == field_index >= Len(parts)

\* The invert flag ignored.
effective_plain(raw, invert_match) == raw

\* main: matched after "if args.invert_match: matched = not matched".
effective(raw, invert_match) == IF invert_match THEN ~raw ELSE raw

\* print(text): the text and a line terminator, in one write.
print(text) == text \o <<"\n">>

\* "if not args.count" forgotten: count mode writes the lines too.
emit_uncounted(line, field, a) ==
  IF a.only_matching THEN <<print(field)>> ELSE <<line>>

\* "if args.only_matching" forgotten: the whole line is always written.
emit_whole(line, field, a) == IF a.count THEN <<>> ELSE <<line>>

\* main: what a selected line adds to standard output.
emit(line, field, a) ==
  IF a.count THEN <<>>
  ELSE IF a.only_matching THEN <<print(field)>>
  ELSE <<line>>

\* No finally clause: fh is never closed.
finally_close_never(stream, held) == held

\* main: the finally clause closes fh unless it is sys.stdin.
finally_close(stream, held) ==
  IF stream # "stdin" THEN held \ {"infile"} ELSE held

\* main: after the loop, count mode prints the count.
final_count(a, n) == IF a.count THEN <<print(str(n))>> ELSE <<>>

\* sys.exit(code) after a message on standard error
exit(code, msg) ==
  /\ pc' = "exit"
  /\ exit_code' = code
  /\ stderr' = Append(stderr, msg)

\* main: "Field number must be >= 1"
FieldError ==
  /\ pc = "main"
  /\ args.field < 1
  /\ exit(2, <<"Field number must be >= 1">>)
  /\ UNCHANGED <<args, stdin, cidr_strings, infile, networks, open, fh, lines,
                 pos, selected, ip_s, matched, stdout>>

\* load_cidrs: the expressions of -e come first.
LoadExpr ==
  /\ pc = "main"
  /\ args.field >= 1
  /\ cidr_strings' = args.expr
  /\ pc' = IF truthy(args.cidr_file) THEN "cidr_open" ELSE "positional"
  /\ UNCHANGED <<args, stdin, infile, networks, open, fh, lines, pos, selected,
                 ip_s, matched, stdout, stderr, exit_code>>

\* load_cidrs: open(args.cidr_file) raises OSError.
CidrOpenError ==
  /\ pc = "cidr_open"
  /\ ~can_open(args.cidr_file[1])
  /\ exit(3, <<"Cannot open CIDR file", args.cidr_file[1]>>)
  /\ UNCHANGED <<args, stdin, cidr_strings, infile, networks, open, fh, lines,
                 pos, selected, ip_s, matched, stdout>>

\* load_cidrs: "with open(args.cidr_file) as fh" is entered.
CidrOpen ==
  /\ pc = "cidr_open"
  /\ can_open(args.cidr_file[1])
  /\ open' = open \cup {"cidr_file"}
  /\ pc' = "cidr_read"
  /\ UNCHANGED <<args, stdin, cidr_strings, infile, networks, fh, lines, pos,
                 selected, ip_s, matched, stdout, stderr, exit_code>>

\* The CIDR file's handle after the with block is left.
with_exit(held) == held \ {"cidr_file"}

\* load_cidrs: the body of the with block, and leaving it.
CidrRead ==
  /\ pc = "cidr_read"
  /\ cidr_strings' = cidr_strings \o cidr_file_exprs(readlines(args.cidr_file[1]))
  /\ open' = with_exit(open)
  /\ pc' = "positional"
  /\ UNCHANGED <<args, stdin, infile, networks, fh, lines, pos, selected, ip_s,
                 matched, stdout, stderr, exit_code>>

\* load_cidrs: the positional arguments, told apart by the last of them.
Positional ==
  /\ pc = "positional"
  /\ infile' = positional_infile(args.args)
  /\ cidr_strings' = cidr_strings \o positional_cidrs(args.args)
  /\ pc' = "build"
  /\ UNCHANGED <<args, stdin, networks, open, fh, lines, pos, selected, ip_s,
                 matched, stdout, stderr, exit_code>>

\* The check for an empty list left out.
no_cidrs_never(cidrs) == FALSE

\* load_cidrs: "if not cidr_strings"
no_cidrs(cidrs) == cidrs = <<>>

\* load_cidrs: "No CIDRs provided."
NoCidrs ==
  /\ pc = "build"
  /\ no_cidrs(cidr_strings)
  /\ exit(2, <<"No CIDRs provided.">>)
  /\ UNCHANGED <<args, stdin, cidr_strings, infile, networks, open, fh, lines,
                 pos, selected, ip_s, matched, stdout>>

\* load_cidrs: the loop over cidr_strings stops at expression number i.
invalid_at(i) ==
  /\ i # 0
  /\ exit(2, <<"Invalid CIDR", cidr_strings[i]>>)

\* load_cidrs: "Invalid CIDR", at the first expression that is no network.
InvalidCidr ==
  /\ pc = "build"
  /\ ~no_cidrs(cidr_strings)
  /\ invalid_at(first_invalid(cidr_strings))
  /\ UNCHANGED <<args, stdin, cidr_strings, infile, networks, open, fh, lines,
                 pos, selected, ip_s, matched, stdout>>

\* load_cidrs: every expression is a network; load_cidrs returns.
BuildNetworks ==
  /\ pc = "build"
  /\ ~no_cidrs(cidr_strings)
  /\ first_invalid(cidr_strings) = 0
  /\ networks' = [i \in 1..Len(cidr_strings) |-> network_of[cidr_strings[i]]]
  /\ pc' = "open_input"
  /\ UNCHANGED <<args, stdin, cidr_strings, infile, open, fh, lines, pos,
                 selected, ip_s, matched, stdout, stderr, exit_code>>

\* main: "if infile" is false: fh stays sys.stdin.
OpenStdin ==
  /\ pc = "open_input"
  /\ ~truthy(infile)
  /\ fh' = "stdin"
  /\ lines' = stdin
  /\ pc' = "loop"
  /\ UNCHANGED <<args, stdin, cidr_strings, infile, networks, open, pos,
                 selected, ip_s, matched, stdout, stderr, exit_code>>

\* main: open(infile) succeeds.
OpenFile ==
  /\ pc = "open_input"
  /\ truthy(infile)
  /\ can_open(infile[1])
  /\ fh' = "file"
  /\ open' = open \cup {"infile"}
  /\ lines' = readlines(infile[1])
  /\ pc' = "loop"
  /\ UNCHANGED <<args, stdin, cidr_strings, infile, networks, pos, selected,
                 ip_s, matched, stdout, stderr, exit_code>>

\* main: open(infile) raises OSError.
OpenFileError ==
  /\ pc = "open_input"
  /\ truthy(infile)
  /\ ~can_open(infile[1])
  /\ exit(3, <<"Cannot open file", infile[1]>>)
  /\ UNCHANGED <<args, stdin, cidr_strings, infile, networks, open, fh, lines,
                 pos, selected, ip_s, matched, stdout>>

\* main: the rest of the loop body, once matched is known.
select(line, field, m) ==
  /\ ip_s' = field
  /\ matched' = m
  /\ selected' = IF m THEN selected + 1 ELSE selected
  /\ stdout' = IF m THEN stdout \o emit(line, field, args) ELSE stdout
  /\ UNCHANGED <<pc, open, stderr, exit_code>>

\* The check of the field count left out: parts[field_index] raises
\* IndexError on a short line, the finally clause runs and the process ends
\* with a traceback.
loop_body_unchecked(line, parts, field_index) ==
  IF is_blank(line)
  THEN UNCHANGED <<selected, ip_s, matched, stdout, pc, open, stderr, exit_code>>
  ELSE IF field_index >= Len(parts)
  THEN /\ open' = finally_close(fh, open)
       /\ pc' = "exit"
       /\ exit_code' = 1
       /\ stderr' = Append(stderr, <<"Traceback">>)
       /\ UNCHANGED <<selected, ip_s, matched, stdout>>
  ELSE select(line, parts[field_index + 1],
              effective(ip_matches_any(parts[field_index + 1], networks),
                        args.invert_match))

\* main: the loop body for one line, split into parts.
loop_body(line, parts, field_index) ==
  IF is_blank(line) \/ field_missing(parts, field_index)
  THEN UNCHANGED <<selected, ip_s, matched, stdout, pc, open, stderr, exit_code>>
  ELSE select(line, parts[field_index + 1],
              effective(ip_matches_any(parts[field_index + 1], networks),
                        args.invert_match))

\* main: one pass through the body of "for line in fh".
ProcessLine ==
  /\ pc = "loop"
  /\ pos < Len(lines)
  /\ pos' = pos + 1
  /\ loop_body(lines[pos + 1], line_split[lines[pos + 1]], args.field - 1)
  /\ UNCHANGED <<args, stdin, cidr_strings, infile, networks, fh, lines>>

\* main: the input is exhausted: the finally clause, then the count.
Finish ==
  /\ pc = "loop"
  /\ pos = Len(lines)
  /\ open' = finally_close(fh, open)
  /\ stdout' = stdout \o final_count(args, selected)
  /\ pc' = "done"
  /\ exit_code' = 0
  /\ UNCHANGED <<args, stdin, cidr_strings, infile, networks, fh, lines, pos,
                 selected, ip_s, matched, stderr>>

\* An exception raised inside the loop (a failed write, KeyboardInterrupt)
\* leaves the try block: the finally clause runs, then the process ends
\* with a traceback.
Interrupt ==
  /\ pc = "loop"
  /\ open' = finally_close(fh, open)
  /\ pc' = "exit"
  /\ exit_code' = 1
  /\ stderr' = Append(stderr, <<"Traceback">>)
  /\ UNCHANGED <<args, stdin, cidr_strings, infile, networks, fh, lines, pos,
                 selected, ip_s, matched, stdout>>

(***************************************************************************)
(* Bounded inputs                                                          *)
(***************************************************************************)

\* The most lines standard input holds.
MaxLines == 3

\* The most positional arguments.
MaxPositional == 2

\* The largest field number.
MaxField == 2

SeqsUpTo(S, n) == UNION {[1..k -> S] : k \in 0..n}

\* What iterating over a stream can yield: every line but the last ends
\* with its terminator.
Streams(n) ==
  {s \in SeqsUpTo({LineBlank, Line1, Line2, Line3}, n) :
     \A i \in 1..(Len(s) - 1) : s[i] # Line3}

namespace(e, c, p, f, v, n, o) ==
  [expr |-> e, cidr_file |-> c, args |-> p, field |-> f,
   invert_match |-> v, count |-> n, only_matching |-> o]

\* (expr, cidr_file, positional) of the runs that exercise the line filter.
FilterRuns ==
  { <<<<>>, None, <<Net4>>>>,
    <<<<Net4Host>>, Some(FileC), <<FileF>>>>,
    <<<<>>, Some(FileC), <<>>>>,
    <<<<Net4Host>>, Some(FileC), <<>>>>,
    <<<<>>, None, <<>>>>,
    <<<<BadNet>>, None, <<>>>>,
    <<<<>>, Some(FileG), <<Net4>>>>,
    <<<<>>, None, <<Net4, FileG>>>> }

\* Nothing has run yet.
Idle ==
  /\ infile = None
  /\ networks = <<>>
  /\ open = {}
  /\ fh = "none"
  /\ lines = <<>>
  /\ pos = 0
  /\ selected = 0
  /\ matched = FALSE
  /\ stdout = <<>>
  /\ stderr = <<>>
  /\ exit_code = -1

\* The program is about to enter main, after parse_args.
Start ==
  /\ pc = "main"
  /\ cidr_strings = <<>>
  /\ ip_s = <<>>
  /\ Idle

Init ==
  /\ \E r \in FilterRuns, f \in 0..MaxField, v, n, o \in BOOLEAN :
       args = namespace(r[1], r[2], r[3], f, v, n, o)
  /\ stdin \in Streams(MaxLines)
  /\ Start

Next ==
  \/ FieldError
  \/ LoadExpr
  \/ CidrOpenError
  \/ CidrOpen
  \/ CidrRead
  \/ Positional
  \/ NoCidrs
  \/ InvalidCidr
  \/ BuildNetworks
  \/ OpenStdin
  \/ OpenFile
  \/ OpenFileError
  \/ ProcessLine
  \/ Finish

Spec == Init /\ [][Next]_vars

\* The program runs to its end: no step waits on anything but its input.
LiveSpec == Spec /\ WF_vars(Next)

\* The same program, where an exception may leave the loop.
NextFault == Next \/ Interrupt

SpecFault == Init /\ [][NextFault]_vars

(***************************************************************************)
(* Runs that exercise argument resolution                                  *)
(***************************************************************************)

ExprChoices == {<<>>, <<Net4Host>>, <<BadNet>>}

CidrFileChoices == {None, Some(FileC), Some(FileK), Some(FileG)}

PositionalTokens == {Net4, Net6, FileF, FileG, Empty}

InitArgs ==
  /\ \E e \in ExprChoices, c \in CidrFileChoices,
        p \in SeqsUpTo(PositionalTokens, MaxPositional),
        f \in {0, 1}, n \in BOOLEAN :
       args = namespace(e, c, p, f, FALSE, n, FALSE)
  /\ stdin = <<Line1, Line3>>
  /\ Start

SpecArgs == InitArgs /\ [][Next]_vars

(***************************************************************************)
(* ip_matches_any as a function of an address text and a list of           *)
(* expressions                                                             *)
(***************************************************************************)

\* The most networks in the list.
MaxNets == 2

MatchNets == {Net4Host, Net4Half, Net4All, Net6, Net6All}

MatchAddrs == {Addr4In, Addr4Out, Addr6In, Addr6Out, NoAddr}

InitMatch ==
  /\ args = namespace(<<>>, None, <<>>, 1, FALSE, FALSE, FALSE)
  /\ stdin = <<>>
  /\ pc = "parse"
  /\ cidr_strings \in SeqsUpTo(MatchNets, MaxNets)
  /\ ip_s \in MatchAddrs
  /\ Idle

\* load_cidrs, lines 96-99, on any list of valid expressions
ParseNetworks ==
  /\ pc = "parse"
  /\ networks' = [i \in 1..Len(cidr_strings) |-> network_of[cidr_strings[i]]]
  /\ pc' = "match"
  /\ UNCHANGED <<args, stdin, cidr_strings, infile, open, fh, lines, pos,
                 selected, ip_s, matched, stdout, stderr, exit_code>>

\* matched = ip_matches_any(ip_s, networks)
Match ==
  /\ pc = "match"
  /\ matched' = ip_matches_any(ip_s, networks)
  /\ pc' = "matched"
  /\ UNCHANGED <<args, stdin, cidr_strings, infile, networks, open, fh, lines,
                 pos, selected, ip_s, stdout, stderr, exit_code>>

NextMatch == ParseNetworks \/ Match

SpecMatch == InitMatch /\ [][NextMatch]_vars

(***************************************************************************)
(* What the properties are stated with: fields, ranges and network texts,  *)
(* defined without the program's split, masks and disambiguation           *)
(***************************************************************************)

\* The positions where a field of the line starts.
FieldStarts(line) ==
  {i \in 1..Len(line) :
     line[i] \notin Whitespace /\ (i = 1 \/ line[i - 1] \in Whitespace)}

NumFields(line) == Cardinality(FieldStarts(line))

\* Field number n (from 1) of the line: from its start to the last
\* character before the next whitespace.
FieldFrom(line, b) ==
  SubSeq(line, b,
         CHOOSE e \in b..Len(line) :
           /\ \A j \in b..e : line[j] \notin Whitespace
           /\ (e = Len(line) \/ line[e + 1] \in Whitespace))

NthField(line, n) ==
  FieldFrom(line, CHOOSE i \in FieldStarts(line) :
                    Cardinality({j \in FieldStarts(line) : j <= i}) = n)

\* Bit number k (from 0, most significant first) of an address.
Bit(a, k) ==
  (a.ip[(k \div GroupBits(a.version)) + 1]
     \div (2 ^ (GroupBits(a.version) - 1 - (k % GroupBits(a.version))))) % 2

\* The address an expression is written with, host bits and all.
LiteralAddress(e) == ip_address(split_on(e, "/")[1])

\* The prefix length an expression is written with.
LiteralPrefix(e) ==
  IF Len(split_on(e, "/")) = 2 THEN int10(split_on(e, "/")[2])
  ELSE LiteralAddress(e).prefixlen

\* Address a has the family of literal address n and its first plen bits.
SamePrefix(a, n, plen) ==
  a.ok /\ n.ok /\ a.version = n.version
       /\ \A k \in 0..(plen - 1) : Bit(a, k) = Bit(n, k)

\* The address lies in the range the expression denotes.
InRange(a, e) == SamePrefix(a, LiteralAddress(e), LiteralPrefix(e))

\* The text is an address inside one of the expressions.
InSomeRange(text, exprs) ==
  \E i \in 1..Len(exprs) : InRange(ip_address(text), exprs[i])

\* The texts of the inputs that are network expressions.
IsNetworkText(t) ==
  t \in {Net4, Net4Host, Net4Half, Net4All, Net6, Net6All}

\* The line is selected: it has the field, and the field's membership
\* differs from the invert flag.
Selects(line) ==
  /\ NumFields(line) >= args.field
  /\ InSomeRange(NthField(line, args.field), cidr_strings) # args.invert_match

\* The writes the first k lines give when count mode is off.
RECURSIVE ExpectedWrites(_)
ExpectedWrites(k) ==
  IF k = 0 THEN <<>>
  ELSE ExpectedWrites(k - 1) \o
       (IF ~Selects(lines[k]) THEN <<>>
        ELSE IF args.only_matching
             THEN << NthField(lines[k], args.field) \o <<"\n">> >>
             ELSE << lines[k] >>)

\* The write is the decimal numeral of n, then a line terminator.
IsCountLine(w, n) ==
  /\ Len(w) >= 2
  /\ w[Len(w)] = "\n"
  /\ isdigit(SubSeq(w, 1, Len(w) - 1))
  /\ (Len(w) = 2 \/ w[1] # "0")
  /\ int10(SubSeq(w, 1, Len(w) - 1)) = n

\* No expression comes from -e, from the CIDR file or from the positional
\* arguments.
CombinedEmpty ==
  /\ args.expr = <<>>
  /\ args.cidr_file \in {None, Some(FileK)}
  /\ \/ args.args = <<>>
     \/ Len(args.args) = 1 /\ ~IsNetworkText(args.args[1])

(***************************************************************************)
(* Properties                                                              *)
(***************************************************************************)

\* C1: load_cidrs tells the positional arguments apart by the last one
\* alone.  With no positional argument it adds no expression and no input
\* file.  If the last one is a network expression, all of them are appended
\* as expressions and there is no input file.  Otherwise the input file is
\* exactly the last one and those before it are appended as expressions.
C1_LastTokenDecides ==
  [][pc = "positional" /\ pc' # "positional" =>
       IF args.args = <<>>
       THEN infile' = None /\ cidr_strings' = cidr_strings
       ELSE IF IsNetworkText(args.args[Len(args.args)])
       THEN infile' = None /\ cidr_strings' = cidr_strings \o args.args
       ELSE /\ infile' = Some(args.args[Len(args.args)])
            /\ cidr_strings' =
                 cidr_strings \o [i \in 1..(Len(args.args) - 1) |-> args.args[i]]
  ]_vars

\* "10.0.0.0/8 f" has been resolved: one expression, input file f.
C1_Witness ==
  /\ pc = "build"
  /\ args.args = <<Net4, FileF>>
  /\ args.expr = <<>>
  /\ args.cidr_file = None
  /\ infile = Some(FileF)
  /\ cidr_strings = <<Net4>>

\* C2: a line that is not skipped is selected iff its field's membership in
\* the networks differs from the invert flag; a field that is no address is
\* no member, so such a line is selected exactly when invert is on.
C2_EffectiveMatch ==
  [][pc = "loop" /\ pos' = pos + 1
       /\ NumFields(lines[pos + 1]) >= args.field =>
       /\ (selected' = selected + 1) =
            (InSomeRange(NthField(lines[pos + 1], args.field), cidr_strings)
               # args.invert_match)
       /\ selected' \in {selected, selected + 1}
       /\ ~ip_address(NthField(lines[pos + 1], args.field)).ok =>
            (selected' = selected + 1) = args.invert_match
       /\ pc' = "loop"
  ]_vars

\* With invert on, a line whose field lies inside the network was excluded.
C2_Witness ==
  /\ pc = "loop"
  /\ pos = 1
  /\ lines[1] = Line1
  /\ args.field = 1
  /\ args.invert_match
  /\ cidr_strings = <<Net4>>
  /\ ip_s = Addr4In
  /\ selected = 0

\* C3: in count mode nothing is written while the input is read, and at the
\* end standard output holds one write: the number of selected lines, as a
\* decimal numeral on a line of its own.
C3_CountOnly ==
  args.count =>
    IF pc = "done"
    THEN /\ Len(stdout) = 1
         /\ IsCountLine(stdout[1],
                        Cardinality({i \in 1..Len(lines) : Selects(lines[i])}))
         /\ selected = Cardinality({i \in 1..Len(lines) : Selects(lines[i])})
         /\ pos = Len(lines)
    ELSE stdout = <<>>

\* Count mode with invert and only-matching on: two of two lines selected.
C3_Witness ==
  /\ pc = "done"
  /\ args.count /\ args.invert_match /\ args.only_matching
  /\ Len(lines) = 2
  /\ selected = 2
  /\ stdout = << <<"2", "\n">> >>

\* C4: ip_matches_any is true iff some expression has the address's family
\* and the address's first prefix-length bits are those of the expression's
\* address; each network's base address is the expression's address with
\* the host bits cleared.  So it is false for the empty list, false when
\* every network is of the other family, and the same for the list
\* reversed or doubled.
C4_Membership ==
  pc = "matched" =>
    /\ matched = InSomeRange(ip_s, cidr_strings)
    /\ \A i \in 1..Len(networks) :
         /\ networks[i].ok
         /\ networks[i].prefixlen = LiteralPrefix(cidr_strings[i])
         /\ \A k \in 0..(LiteralAddress(cidr_strings[i]).prefixlen - 1) :
              Bit(networks[i], k) =
                IF k < networks[i].prefixlen
                THEN Bit(LiteralAddress(cidr_strings[i]), k) ELSE 0
    /\ cidr_strings = <<>> => ~matched
    /\ (\A i \in 1..Len(networks) :
          networks[i].version # ip_address(ip_s).version) => ~matched
    /\ matched = ip_matches_any(ip_s,
                   [i \in 1..Len(networks) |-> networks[Len(networks) + 1 - i]])
    /\ matched = ip_matches_any(ip_s, networks \o networks)

\* An IPv4 address matched the second network, one written with host bits
\* set, after an IPv6 network.
C4_Witness ==
  /\ pc = "matched"
  /\ cidr_strings = <<Net6, Net4Host>>
  /\ ip_s = Addr4In
  /\ matched

\* C5: when no source gives an expression the program exits with "No CIDRs
\* provided." and status 2, before the input is opened, read or anything is
\* written; the filter never starts without an expression.
C5_NoExpressions ==
  /\ CombinedEmpty /\ pc \notin {"main", "cidr_open", "cidr_read", "positional", "build"} =>
       /\ pc = "exit"
       /\ exit_code = 2
       /\ args.field >= 1 => stderr = << <<"No CIDRs provided.">> >>
       /\ fh = "none" /\ open = {} /\ lines = <<>> /\ pos = 0 /\ stdout = <<>>
  /\ stderr = << <<"No CIDRs provided.">> >> => CombinedEmpty /\ pc = "exit"
  /\ pc \in {"open_input", "loop", "done"} => cidr_strings # <<>> /\ networks # <<>>

\* The only positional argument is a file name, the CIDR file holds only
\* comments: the program has exited with "No CIDRs provided.".
C5_Witness ==
  /\ pc = "exit"
  /\ args.args = <<FileF>>
  /\ args.cidr_file = Some(FileK)
  /\ infile = Some(FileF)
  /\ stderr = << <<"No CIDRs provided.">> >>
  /\ exit_code = 2

\* C6: a line that is blank, or has fewer fields than the field number, is
\* neither counted nor written; a line with at least that many fields, and
\* so one with exactly that many, has its field extracted and matched.
C6_SkippedLines ==
  [][pc = "loop" /\ pos' = pos + 1 =>
       IF NumFields(lines[pos + 1]) < args.field
       THEN selected' = selected /\ stdout' = stdout
       ELSE /\ ip_s' = NthField(lines[pos + 1], args.field)
            /\ matched' = (InSomeRange(ip_s', cidr_strings) # args.invert_match)
            /\ selected' = IF matched' THEN selected + 1 ELSE selected
  ]_vars

\* With invert on and field 2, a blank line and a one-field line were both
\* passed over.
C6_Witness ==
  /\ pc = "loop"
  /\ lines = <<LineBlank, Line1>>
  /\ pos = 2
  /\ args.field = 2
  /\ args.invert_match
  /\ ~args.count
  /\ selected = 0
  /\ stdout = <<>>

\* C7: with count mode off, standard output is at every point one write
\* per selected line among the lines consumed, in input order: the line as
\* read, or in only-matching mode the field and a line terminator; and
\* selected is the number of writes.
C7_OutputInOrder ==
  ~args.count => stdout = ExpectedWrites(pos) /\ selected = Len(stdout)

\* Only-matching mode, field 2: of two lines consumed the first was
\* selected and its field written.
C7_Witness ==
  /\ pc = "loop"
  /\ ~args.count /\ args.only_matching /\ ~args.invert_match
  /\ args.field = 2
  /\ lines = <<Line2, Line3>>
  /\ pos = 2
  /\ stdout = << Addr6In \o <<"\n">> >>

\* C8: the program exits with an error only before it has read a line or
\* written anything; from the loop it goes nowhere but to the end; it always
\* terminates, and it ends having consumed every line, one at a time.
C8_ErrorsBeforeStreaming ==
  /\ [](exit_code \notin {-1, 0} =>
          pc = "exit" /\ exit_code \in {2, 3} /\ pos = 0 /\ stdout = <<>>)
  /\ [](args.field < 1 /\ pc # "main" => pc = "exit" /\ fh = "none")
  /\ [][pc = "loop" =>
          \/ pc' = "loop" /\ pos' = pos + 1 /\ exit_code' = -1
          \/ pc' = "done" /\ pos' = pos /\ exit_code' = 0]_vars
  /\ [](pc = "done" => pos = Len(lines) /\ exit_code = 0)
  /\ [](pc = "loop" => <>(pc = "done"))
  /\ <>(pc \in {"done", "exit"})

\* A run over two lines has ended normally.
C8_Witness ==
  /\ pc = "done"
  /\ Len(lines) = 2
  /\ pos = 2
  /\ exit_code = 0
  /\ stderr = <<>>

\* C9: the filter reads standard input exactly when there is no positional
\* argument or the last one is a network expression; otherwise it reads the
\* file the last positional argument names.
C9_ReadsNamedFile ==
  pc \in {"loop", "done"} =>
    IF args.args = <<>> \/ IsNetworkText(args.args[Len(args.args)])
    THEN fh = "stdin" /\ lines = stdin
    ELSE fh = "file" /\ lines = readlines(args.args[Len(args.args)])

\* C10: the process never ends with a file open, and the CIDR file is
\* closed before the positional arguments are looked at.
C10_StreamsClosed ==
  /\ pc \in {"done", "exit"} => open = {}
  /\ pc \notin {"cidr_read"} => "cidr_file" \notin open
  /\ pc \notin {"loop"} => "infile" \notin open
  /\ pc = "loop" /\ fh = "file" => "infile" \in open

\* An exception left the loop while the input file was being read, after
\* the CIDR file had been read: nothing is open.
C10_Witness ==
  /\ pc = "exit"
  /\ exit_code = 1
  /\ fh = "file"
  /\ pos = 1
  /\ args.cidr_file = Some(FileC)
  /\ open = {}

====
